---- MODULE Spec2Model ----
(***************************************************************************)
(* Model of generate_flutter_icons.py: the platform target catalog, the   *)
(* master-image load and square normalisation, and the generation run of  *)
(* generate_icons (collect targets, PNG loop, Windows ICO, summary),      *)
(* together with main's --platform validation.                            *)
(*                                                                         *)
(* Paths are sequences of path components relative to the project root    *)
(* (base = << >>).  A dict is a sequence of [k, v] records with unique    *)
(* keys, in insertion order, as a Python dict is.                          *)
(***************************************************************************)
EXTENDS Integers, Sequences, FiniteSets, TLC

\* ------------------------------------------------------------------ bounds

\* Longest explicit platform list tried (besides the default list and the
\* full catalog in both orders).
MaxPlatforms == 2

\* Longest explicit platform list tried when runs are repeated.
MaxRerunPlatforms == 1

\* Number of consecutive runs of generate_icons over one project root.
MaxRuns == 2

\* ------------------------------------------------------------- dict helpers

Max(a, b) == IF a >= b THEN a ELSE b

Range(s) == { s[i] : i \in 1..Len(s) }

Keys(d) == { d[i].k : i \in 1..Len(d) }

Values(d) == { d[i].v : i \in 1..Len(d) }

\* The k-th smallest element of a set of integers.
Nth(S, k) == CHOOSE i \in S : Cardinality({ j \in S : j < i }) = k - 1

\* The value the last item of t with key k carries.
LastValue(t, k) ==
    t[CHOOSE i \in 1..Len(t) : t[i].k = k /\ \A j \in (i + 1)..Len(t) : t[j].k # k].v

\* d.update(t), and a dict literal (d = << >>): d[k] = v for each item of t in
\* turn.  A key of d keeps its place and takes the last value t gives it; the
\* new keys follow in the order t first names them.
DictUpdate(d, t) ==
    LET fresh == { i \in 1..Len(t) :
                     /\ t[i].k \notin Keys(d)
                     /\ \A j \in 1..(i - 1) : t[j].k # t[i].k }
        tkeys == Keys(t)
    IN [ i \in 1..(Len(d) + Cardinality(fresh)) |->
           IF i <= Len(d)
           THEN (IF d[i].k \in tkeys THEN [k |-> d[i].k, v |-> LastValue(t, d[i].k)] ELSE d[i])
           ELSE LET key == t[Nth(fresh, i - Len(d))].k
                IN [k |-> key, v |-> LastValue(t, key)] ]

KV(k, v) == [k |-> k, v |-> v]

\* --------------------------------------------------------------- catalog

\* densities of get_android_icons; the scale is kept doubled (1.5 -> 3) so
\* that int(48 * scale) is the integer division (48 * scale2) \div 2.
densities ==
    << <<"mipmap-mdpi", 2>>, <<"mipmap-hdpi", 3>>, <<"mipmap-xhdpi", 4>>,
       <<"mipmap-xxhdpi", 6>>, <<"mipmap-xxxhdpi", 8>> >>

LauncherDp == 48

ForegroundDp == 108

\* int(dp * scale), scale = scale2 / 2
ScaledPx(dp, scale2) == (dp * scale2) \div 2

\* The three assignments of the loop body for one density.
AndroidAssignments(res_base, folder, scale2) ==
    << KV(res_base \o <<folder, "ic_launcher.png">>, ScaledPx(LauncherDp, scale2)),
       KV(res_base \o <<folder, "ic_launcher_round.png">>, ScaledPx(LauncherDp, scale2)),
       KV(res_base \o <<folder, "ic_launcher_foreground.png">>, ScaledPx(ForegroundDp, scale2)) >>

\* targets[...] = ... for every density in turn, three assignments each.
get_android_icons(base) ==
    LET res_base == base \o <<"android", "app", "src", "main", "res">>
        assignments == [ i \in 1..(3 * Len(densities)) |->
            AndroidAssignments(res_base, densities[((i - 1) \div 3) + 1][1],
                               densities[((i - 1) \div 3) + 1][2])[((i - 1) % 3) + 1] ]
    IN DictUpdate(<< >>, assignments)

IOS_PLATFORM == "ios"

AppIconDir(base, os) == base \o <<os, "Runner", "Assets.xcassets", "AppIcon.appiconset">>

get_ios_icons(base) ==
    LET appicon_dir == AppIconDir(base, "ios")
        f(name) == appicon_dir \o <<name>>
    IN DictUpdate(<< >>, <<
        KV(f("Icon-App-20x20@1x.png"), 20),
        KV(f("Icon-App-20x20@2x.png"), 40),
        KV(f("Icon-App-20x20@3x.png"), 60),
        KV(f("Icon-App-29x29@1x.png"), 29),
        KV(f("Icon-App-29x29@2x.png"), 58),
        KV(f("Icon-App-29x29@3x.png"), 87),
        KV(f("Icon-App-40x40@1x.png"), 40),
        KV(f("Icon-App-40x40@2x.png"), 80),
        KV(f("Icon-App-40x40@3x.png"), 120),
        KV(f("Icon-App-60x60@2x.png"), 120),
        KV(f("Icon-App-60x60@3x.png"), 180),
        KV(f("Icon-App-76x76@1x.png"), 76),
        KV(f("Icon-App-76x76@2x.png"), 152),
        KV(f("Icon-App-83.5x83.5@2x.png"), 167),
        KV(f("Icon-App-1024x1024@1x.png"), 1024) >>)

get_macos_icons(base) ==
    LET appicon_dir == AppIconDir(base, "macos")
        f(name) == appicon_dir \o <<name>>
    IN DictUpdate(<< >>, <<
        KV(f("app_icon_16.png"), 16),
        KV(f("app_icon_32.png"), 32),
        KV(f("app_icon_64.png"), 64),
        KV(f("app_icon_128.png"), 128),
        KV(f("app_icon_256.png"), 256),
        KV(f("app_icon_512.png"), 512),
        KV(f("app_icon_1024.png"), 1024) >>)

get_linux_icons(base) ==
    DictUpdate(<< >>, << KV(base \o <<"linux", "flutter", "app_icon.png">>, 256) >>)

get_web_icons(base) ==
    LET web_dir == base \o <<"web">>
        icons_dir == web_dir \o <<"icons">>
    IN DictUpdate(<< >>, <<
        KV(web_dir \o <<"favicon.png">>, 32),
        KV(icons_dir \o <<"Icon-192.png">>, 192),
        KV(icons_dir \o <<"Icon-512.png">>, 512),
        KV(icons_dir \o <<"Icon-maskable-192.png">>, 192),
        KV(icons_dir \o <<"Icon-maskable-512.png">>, 512) >>)

get_store_icons(base) ==
    DictUpdate(<< >>, <<
        KV(base \o <<"appstore.png">>, 1024),
        KV(base \o <<"playstore.png">>, 512) >>)

get_ios_legacy_icons(base) ==
    LET appicon_dir == AppIconDir(base, "ios")
        f(name) == appicon_dir \o <<name>>
    IN DictUpdate(<< >>, <<
        KV(f("Icon-App-57x57@1x.png"), 57),
        KV(f("Icon-App-57x57@2x.png"), 114),
        KV(f("Icon-App-50x50@1x.png"), 50),
        KV(f("Icon-App-50x50@2x.png"), 100),
        KV(f("Icon-App-72x72@1x.png"), 72),
        KV(f("Icon-App-72x72@2x.png"), 144) >>)

get_watch_icons(base) ==
    LET appicon_dir == AppIconDir(base, "ios")
        f(name) == appicon_dir \o <<name>>
    IN DictUpdate(<< >>, <<
        KV(f("Icon-Watch-24x24@2x.png"), 48),
        KV(f("Icon-Watch-27.5x27.5@2x.png"), 55),
        KV(f("Icon-Watch-33x33@2x.png"), 66),
        KV(f("Icon-Watch-40x40@2x.png"), 80),
        KV(f("Icon-Watch-44x44@2x.png"), 88),
        KV(f("Icon-Watch-46x46@2x.png"), 92),
        KV(f("Icon-Watch-50x50@2x.png"), 100),
        KV(f("Icon-Watch-51x51@2x.png"), 102),
        KV(f("Icon-Watch-54x54@2x.png"), 108),
        KV(f("Icon-Watch-86x86@2x.png"), 172),
        KV(f("Icon-Watch-98x98@2x.png"), 196),
        KV(f("Icon-Watch-108x108@2x.png"), 216),
        KV(f("Icon-Watch-117x117@2x.png"), 234),
        KV(f("Icon-Watch-129x129@2x.png"), 258) >>)

windows_sizes == <<16, 20, 24, 30, 32, 36, 40, 48, 60, 64, 72, 80, 96, 256>>

ico_path(base) == base \o <<"windows", "runner", "resources", "app_icon.ico">>

\* (ico_path, windows_sizes)
get_windows_ico_path_and_sizes(base) == <<ico_path(base), windows_sizes>>

\* Names that have a PNG builder (windows has none: it produces the ICO).
PLATFORM_GENERATOR_NAMES ==
    {"android", "ios", "macos", "linux", "web", "store", "ios-legacy", "watch"}

PLATFORM_GENERATORS(platform, base) ==
    CASE platform = "android" -> get_android_icons(base)
      [] platform = "ios" -> get_ios_icons(base)
      [] platform = "macos" -> get_macos_icons(base)
      [] platform = "linux" -> get_linux_icons(base)
      [] platform = "web" -> get_web_icons(base)
      [] platform = "store" -> get_store_icons(base)
      [] platform = "ios-legacy" -> get_ios_legacy_icons(base)
      [] platform = "watch" -> get_watch_icons(base)

DEFAULT_PLATFORMS == <<"android", "ios", "macos", "linux", "web", "windows", "store">>

OPTIONAL_PLATFORMS == <<"ios-legacy", "watch">>

ALL_PLATFORMS == DEFAULT_PLATFORMS \o OPTIONAL_PLATFORMS

\* Mutant: only the current iOS set is treated as opaque.
apple_icon_platforms_ios_only == {IOS_PLATFORM}

apple_icon_platforms == {IOS_PLATFORM, "ios-legacy", "watch"}

\* A name outside the catalog, as a caller may pass it.
UnknownName == "tvos"

\* ----------------------------------------------------------------- images

\* Image.open(master_path).convert("RGBA"): the decoded master, its own
\* content at (0,0) filling the whole canvas.
ImageOpen(m) ==
    [mode |-> "RGBA", w |-> m.w, h |-> m.h, ox |-> 0, oy |-> 0,
     cw |-> m.w, ch |-> m.h, fill |-> "none"]

\* Mutant: the original pasted at the top-left corner instead of centred.
PadToSquareTopLeft(im) ==
    LET max_dim == Max(im.w, im.h)
    IN [mode |-> "RGBA", w |-> max_dim, h |-> max_dim, ox |-> 0, oy |-> 0,
        cw |-> im.w, ch |-> im.h, fill |-> "transparent"]

\* The non-square branch of generate_icons: a transparent max_dim canvas with
\* the original pasted at ((max_dim - w) // 2, (max_dim - h) // 2).
PadToSquare(im) ==
    LET max_dim == Max(im.w, im.h)
    IN [mode |-> "RGBA", w |-> max_dim, h |-> max_dim,
        ox |-> (max_dim - im.w) \div 2, oy |-> (max_dim - im.h) \div 2,
        cw |-> im.w, ch |-> im.h, fill |-> "transparent"]

\* The master as every target uses it.
NormalizeSquare(im) == IF im.w # im.h THEN PadToSquare(im) ELSE im

NoImage ==
    [mode |-> "none", w |-> 0, h |-> 0, ox |-> 0, oy |-> 0,
     cw |-> 0, ch |-> 0, fill |-> "none"]

\* A rendered bitmap: its mode and pixel dimensions.
Bitmap(mode, w, h) == [mode |-> mode, w |-> w, h |-> h]

\* img.resize((size, size), Image.LANCZOS)
Resize(im, size) == Bitmap(im.mode, size, size)

\* pyvips.Image.thumbnail(svg, size, height=size): the view box fitted into a
\* size x size box, aspect ratio kept.
Thumbnail(m, size) ==
    LET big == Max(m.w, m.h)
    IN Bitmap("RGBA", Max(1, (m.w * size) \div big), Max(1, (m.h * size) \div big))

\* _svg_to_pil: pad to an exact square when the view box was not square.
svg_to_pil(m, size) ==
    LET rendered == Thumbnail(m, size)
    IN IF <<rendered.w, rendered.h>> # <<size, size>>
       THEN Bitmap("RGBA", size, size)
       ELSE rendered

\* _strip_alpha: composite on white, an RGB image of the same size.
strip_alpha(b) == Bitmap("RGB", b.w, b.h)

\* ------------------------------------------------------------ file system

Parent(p) == SubSeq(p, 1, Len(p) - 1)

\* A directory and all its ancestors.
Prefixes(d) == { SubSeq(d, 1, i) : i \in 0..Len(d) }

\* Path.mkdir(parents=..., exist_ok=...) on the set ds of existing directories.
Mkdir(ds, d, parents, exist_ok) ==
    IF d \in ds
    THEN [err |-> ~exist_ok, dirs |-> ds]
    ELSE IF parents
         THEN [err |-> FALSE, dirs |-> ds \cup Prefixes(d)]
         ELSE IF Parent(d) \in ds
              THEN [err |-> FALSE, dirs |-> ds \cup {d}]
              ELSE [err |-> TRUE, dirs |-> ds]

\* Mutant: mkdir(parents=True) without exist_ok.
MkdirParentNoExistOk(ds, path) == Mkdir(ds, Parent(path), TRUE, FALSE)

\* out_path.parent.mkdir(parents=True, exist_ok=True)
MkdirParent(ds, path) == Mkdir(ds, Parent(path), TRUE, TRUE)

\* What Image.save is handed: the image it is called on, the format, and for
\* the ICO the appended images and the sizes list.
FileOf(format, primary, append_images, sizes) ==
    [format |-> format, primary |-> primary,
     append_images |-> append_images, sizes |-> sizes]

\* A file left behind by a write that failed part-way.
PartialFile == FileOf("partial", Bitmap("none", 0, 0), << >>, << >>)

WriteFile(fs, path, content) ==
    [ p \in (DOMAIN fs) \cup {path} |-> IF p = path THEN content ELSE fs[p] ]

\* -------------------------------------------------------- target collection

\* The loop of generate_icons over platforms: all_targets and no_alpha_paths.
\* The targets one pass of the loop adds: none for a name without a builder.
TargetsOf(platform, base) ==
    IF platform \in PLATFORM_GENERATOR_NAMES
    THEN PLATFORM_GENERATORS(platform, base)
    ELSE << >>

\* The items the loop hands to all_targets.update, pass after pass.
RECURSIVE UpdatesOf(_, _)
UpdatesOf(names, base) ==
    IF names = << >> THEN << >>
    ELSE TargetsOf(Head(names), base) \o UpdatesOf(Tail(names), base)

\* The loop of generate_icons over platforms: all_targets is updated with each
\* selected builder's targets in turn; no_alpha_paths takes the keys of the
\* Apple platforms' targets.
CollectTargets(names, base) ==
    [all_targets |-> DictUpdate(<< >>, UpdatesOf(names, base)),
     no_alpha_paths |->
        UNION { Keys(TargetsOf(names[i], base)) :
                  i \in { j \in 1..Len(names) :
                            /\ names[j] \in PLATFORM_GENERATOR_NAMES
                            /\ names[j] \in apple_icon_platforms } }]

\* Mutant: the items in dict order, unsorted.
Unsorted(d) == d

\* sorted(all_targets.items(), key=lambda kv: kv[1]): ascending by size, items
\* of equal size in their dict order (the sort is stable).
SortedBySize(d) ==
    LET rank == [ i \in 1..Len(d) |->
                    1 + Cardinality({ j \in 1..Len(d) :
                            d[j].v < d[i].v \/ (d[j].v = d[i].v /\ j < i) }) ]
    IN [ p \in 1..Len(d) |-> d[CHOOSE i \in 1..Len(d) : rank[i] = p] ]

SetMax(S) == CHOOSE x \in S : \A y \in S : y <= x

\* all_sizes of the upscale check
AllSizes(targets, names) ==
    Values(targets) \cup (IF "windows" \in Range(names) THEN Range(windows_sizes) ELSE {})

\* Mutant: the comparison made inclusive.
UpscaleWarnedInclusive(w, targets, names) ==
    LET all_sizes == AllSizes(targets, names)
    IN all_sizes # {} /\ w <= SetMax(all_sizes)

\* The upscale check: whether the warning is printed, for a raster master
\* whose (normalised) width is w.
UpscaleWarned(w, targets, names) ==
    LET all_sizes == AllSizes(targets, names)
    IN all_sizes # {} /\ w < SetMax(all_sizes)

\* Mutant: the container file left out of the count.
FileCountPngOnly(targets, names) == Len(targets)

\* file_count of the summary
FileCount(targets, names) ==
    Len(targets) + (IF "windows" \in Range(names) THEN 1 ELSE 0)

\* ------------------------------------------------------------------- state

VARIABLES
    arg,            \* the platforms argument: [given, names]
    master,         \* the master file: [exists, is_svg, decodable, w, h]
    pyvips,         \* whether import pyvips succeeds
    pc,             \* position: "main" in main, before it calls generate_icons;
                    \* "start" on entry to generate_icons (from main or directly)
    err,            \* the exception that ended the run, or "none"
    platforms,      \* generate_icons' platforms: [given, names]
    img,            \* the decoded (and normalised) raster master, or NoImage
    all_targets,    \* dict path -> size
    no_alpha_paths, \* set of paths
    queue,          \* the sorted items the PNG loop has still to process
    dirs,           \* directories that exist under the project root
    files,          \* files that exist: path -> content
    out,            \* lines printed, in order
    ops,            \* calls made on the master, the imaging library and the file system
    run,            \* number of the current run
    snap            \* dirs and files as the previous run left them

vars == <<arg, master, pyvips, pc, err, platforms, img, all_targets,
          no_alpha_paths, queue, dirs, files, out, ops, run, snap>>

inputs == <<arg, master, pyvips>>

project_root == << >>

Line(kind, path, size, n) == [kind |-> kind, path |-> path, size |-> size, n |-> n]

Op(op, path, size) == [op |-> op, path |-> path, size |-> size]

\* ------------------------------------------------------------------ inputs

Names == Range(ALL_PLATFORMS) \cup {UnknownName}

SeqsUpTo(S, n) == UNION { [1..k -> S] : k \in 0..n }

Reverse(s) == [ i \in 1..Len(s) |-> s[Len(s) + 1 - i] ]

NotGiven == [given |-> FALSE, names |-> << >>]

Given(s) == [given |-> TRUE, names |-> s]

Args(n) ==
    {NotGiven} \cup { Given(s) : s \in SeqsUpTo(Names, n) \cup {ALL_PLATFORMS, Reverse(ALL_PLATFORMS)} }

Master(exists, is_svg, decodable, w, h) ==
    [exists |-> exists, is_svg |-> is_svg, decodable |-> decodable, w |-> w, h |-> h]

RasterDims == { <<800, 600>>, <<600, 1024>>, <<1024, 1024>> }

Masters ==
    { Master(FALSE, FALSE, FALSE, 0, 0),
      Master(FALSE, TRUE, FALSE, 0, 0),
      Master(TRUE, FALSE, FALSE, 0, 0),
      Master(TRUE, TRUE, FALSE, 0, 0),
      Master(TRUE, TRUE, TRUE, 800, 600) }
    \cup { Master(TRUE, FALSE, TRUE, d[1], d[2]) : d \in RasterDims }

\* main reaches generate_icons with None (no --platform, or an empty one) or
\* with at least one name: "".split(",") is never empty.
EntryArgOk(entry, a) == entry = "main" => (~a.given \/ a.names # << >>)

InitWith(n) ==
    /\ arg \in Args(n)
    /\ pc \in {"main", "start"}
    /\ EntryArgOk(pc, arg)
    /\ master \in Masters
    /\ pyvips \in (IF master.is_svg THEN BOOLEAN ELSE {TRUE})
    /\ err = "none"
    /\ platforms = arg
    /\ img = NoImage
    /\ all_targets = << >>
    /\ no_alpha_paths = {}
    /\ queue = << >>
    /\ dirs = {project_root}
    /\ files = << >>
    /\ out = << >>
    /\ ops = << >>
    /\ run = 1
    /\ snap = [dirs |-> {project_root}, files |-> << >>]

Init == InitWith(MaxPlatforms)

InitRerun == InitWith(MaxRerunPlatforms)

\* ------------------------------------------------------------------ actions

Fail(e) == pc' = "failed" /\ err' = e

\* Mutant: only the first name is validated.
InvalidFirstOnly(names) ==
    SelectSeq(SubSeq(names, 1, 1), LAMBDA p : p \notin Range(ALL_PLATFORMS))

\* main: invalid = [p for p in platforms if p not in ALL_PLATFORMS]
Invalid(names) == SelectSeq(names, LAMBDA p : p \notin Range(ALL_PLATFORMS))

\* main: validate --platform, then call generate_icons.
Main ==
    /\ pc = "main"
    /\ IF arg.given /\ Invalid(arg.names) # << >>
       THEN Fail("UsageError")
       ELSE pc' = "start" /\ err' = err
    /\ UNCHANGED <<inputs, platforms, img, all_targets, no_alpha_paths, queue,
                   dirs, files, out, ops, run, snap>>

\* Mutant: no eager pyvips probe; the import is left to the first render.
MasterProblemLazyProbe(m, pv) ==
    IF ~m.exists THEN "FileNotFoundError"
    ELSE IF m.is_svg THEN "none"
         ELSE (IF ~m.decodable THEN "UnidentifiedImageError" ELSE "none")

\* The exception the head of generate_icons raises for master m, or "none".
MasterProblem(m, pv) ==
    IF ~m.exists THEN "FileNotFoundError"
    ELSE IF m.is_svg
         THEN (IF ~pv THEN "RuntimeError" ELSE "none")
         ELSE (IF ~m.decodable THEN "UnidentifiedImageError" ELSE "none")

\* generate_icons up to the platforms default: is_file, the pyvips probe or
\* Image.open, and the square normalisation.
LoadMaster ==
    /\ pc = "start"
    /\ ops' = Append(ops, Op("load", << >>, 0))
    /\ LET problem == MasterProblem(master, pyvips)
       IN IF problem # "none"
          THEN Fail(problem) /\ UNCHANGED <<img, out>>
          ELSE /\ pc' = "collect"
               /\ err' = err
               /\ IF master.is_svg
                  THEN /\ img' = NoImage
                       /\ out' = Append(out, Line("INFO_SVG", << >>, 0, 0))
                  ELSE LET opened == ImageOpen(master)
                       IN /\ img' = NormalizeSquare(opened)
                          /\ out' = IF opened.w # opened.h
                                    THEN Append(out, Line("WARN_NOT_SQUARE", << >>, opened.h, opened.w))
                                    ELSE out
    /\ UNCHANGED <<inputs, platforms, all_targets, no_alpha_paths, queue,
                   dirs, files, run, snap>>

\* Where the run goes once the PNG loop is over (or was skipped).
AfterPng(names) == IF "windows" \in Range(names) THEN "ico" ELSE "summary"

\* The platforms default, the target collection and the upscale warning.
Collect ==
    /\ pc = "collect"
    /\ LET names == IF ~platforms.given THEN DEFAULT_PLATFORMS ELSE platforms.names
           c == CollectTargets(names, project_root)
       IN /\ platforms' = Given(names)
          /\ all_targets' = c.all_targets
          /\ no_alpha_paths' = c.no_alpha_paths
          /\ queue' = SortedBySize(c.all_targets)
          /\ out' = IF ~master.is_svg /\ UpscaleWarned(img.w, c.all_targets, names)
                    THEN Append(out, Line("WARN_UPSCALE", << >>,
                                          SetMax(AllSizes(c.all_targets, names)), img.w))
                    ELSE out
          /\ pc' = IF c.all_targets # << >> THEN "png" ELSE AfterPng(names)
    /\ UNCHANGED <<inputs, err, img, dirs, files, ops, run, snap>>

\* Whether rendering the master succeeds: a raster master was decoded at load;
\* _svg_to_pil imports pyvips and decodes the SVG on each call.
CanRender(m, pv) == IF m.is_svg THEN pv /\ m.decodable ELSE TRUE

\* The bitmap for one size, from the raster or the vector master.
Render(m, im, size) == IF m.is_svg THEN svg_to_pil(m, size) ELSE Resize(im, size)

\* The image saved at out_path: alpha stripped for the paths in no_alpha_paths.
Finished(b, out_path, no_alpha) == IF out_path \in no_alpha THEN strip_alpha(b) ELSE b

\* Mutant: a failed save is swallowed and the loop goes on.
PcAfterSaveSwallowed(saved, rest, names) ==
    IF rest # << >> THEN "png" ELSE AfterPng(names)

\* The PNG loop's next position: an exception raised by save leaves the loop.
PcAfterSave(saved, rest, names) ==
    IF ~saved THEN "failed"
    ELSE IF rest # << >> THEN "png" ELSE AfterPng(names)

\* The calls of one loop iteration, in the order the body makes them.
TargetOps(out_path, size, no_alpha) ==
    << Op("mkdir", Parent(out_path), 0), Op("render", out_path, size) >>
    \o (IF out_path \in no_alpha THEN << Op("strip", out_path, size) >> ELSE << >>)
    \o << Op("save", out_path, size) >>

\* One iteration of the PNG loop.
ProcessTarget ==
    /\ pc = "png"
    /\ queue # << >>
    /\ LET out_path == Head(queue).k
           size == Head(queue).v
           mk == MkdirParent(dirs, out_path)
       IN IF mk.err
          THEN /\ Fail("FileExistsError")
               /\ ops' = Append(ops, Op("mkdir", Parent(out_path), 0))
               /\ UNCHANGED <<dirs, files, out, queue>>
          ELSE IF ~CanRender(master, pyvips)
          THEN /\ Fail("RenderError")
               /\ dirs' = mk.dirs
               /\ ops' = ops \o << Op("mkdir", Parent(out_path), 0), Op("render", out_path, size) >>
               /\ UNCHANGED <<files, out, queue>>
          ELSE \E saved \in BOOLEAN :
               LET resized == Finished(Render(master, img, size), out_path, no_alpha_paths)
               IN /\ dirs' = mk.dirs
                  /\ ops' = ops \o TargetOps(out_path, size, no_alpha_paths)
                  /\ pc' = PcAfterSave(saved, Tail(queue), platforms.names)
                  /\ err' = IF saved THEN err ELSE "WriteFailure"
                  /\ IF saved
                     THEN /\ files' = WriteFile(files, out_path, FileOf("PNG", resized, << >>, << >>))
                          /\ out' = Append(out, Line("OK", out_path, size, 0))
                          /\ queue' = Tail(queue)
                     ELSE /\ files' \in {files, WriteFile(files, out_path, PartialFile)}
                          /\ UNCHANGED <<out, queue>>
    /\ UNCHANGED <<inputs, platforms, img, all_targets, no_alpha_paths, run, snap>>

\* Mutant: save called on the last (largest) frame, the others appended.
IcoFileLargestFirst(ico_frames, sizes) ==
    FileOf("ICO", ico_frames[Len(ico_frames)], SubSeq(ico_frames, 1, Len(ico_frames) - 1),
           [ i \in 1..Len(sizes) |-> <<sizes[i], sizes[i]>> ])

\* ico_frames[0].save(ico_path, format="ICO", append_images=ico_frames[1:], sizes=...)
IcoFile(ico_frames, sizes) ==
    FileOf("ICO", Head(ico_frames), Tail(ico_frames), [ i \in 1..Len(sizes) |-> <<sizes[i], sizes[i]>> ])

\* The Windows multi-size ICO.
WriteIco ==
    /\ pc = "ico"
    /\ LET path == get_windows_ico_path_and_sizes(project_root)[1]
           sizes == get_windows_ico_path_and_sizes(project_root)[2]
           mk == MkdirParent(dirs, path)
       IN IF mk.err
          THEN /\ Fail("FileExistsError")
               /\ ops' = Append(ops, Op("mkdir", Parent(path), 0))
               /\ UNCHANGED <<dirs, files, out>>
          ELSE IF ~CanRender(master, pyvips)
          THEN /\ Fail("RenderError")
               /\ dirs' = mk.dirs
               /\ ops' = ops \o << Op("mkdir", Parent(path), 0), Op("render", path, sizes[1]) >>
               /\ UNCHANGED <<files, out>>
          ELSE \E saved \in BOOLEAN :
               LET ico_frames == [ i \in 1..Len(sizes) |-> Render(master, img, sizes[i]) ]
               IN /\ dirs' = mk.dirs
                  /\ ops' = ops \o << Op("mkdir", Parent(path), 0) >>
                                \o [ i \in 1..Len(sizes) |-> Op("render", path, sizes[i]) ]
                                \o << Op("save", path, 0) >>
                  /\ pc' = IF saved THEN "summary" ELSE "failed"
                  /\ err' = IF saved THEN err ELSE "WriteFailure"
                  /\ IF saved
                     THEN /\ files' = WriteFile(files, path, IcoFile(ico_frames, sizes))
                          /\ out' = Append(out, Line("OK_ICO", path, 0, Len(sizes)))
                     ELSE /\ files' \in {files, WriteFile(files, path, PartialFile)}
                          /\ out' = out
    /\ UNCHANGED <<inputs, platforms, img, all_targets, no_alpha_paths, queue, run, snap>>

\* The summary line.
Summary ==
    /\ pc = "summary"
    /\ out' = Append(out, Line("SUMMARY", << >>, 0, FileCount(all_targets, platforms.names)))
    /\ pc' = "done"
    /\ UNCHANGED <<inputs, err, platforms, img, all_targets, no_alpha_paths, queue,
                   dirs, files, ops, run, snap>>

\* generate_icons called again with the same master, root and platforms.
Rerun ==
    /\ pc = "done"
    /\ run < MaxRuns
    /\ run' = run + 1
    /\ snap' = [dirs |-> dirs, files |-> files]
    /\ pc' = "start"
    /\ platforms' = arg
    /\ img' = NoImage
    /\ all_targets' = << >>
    /\ no_alpha_paths' = {}
    /\ queue' = << >>
    /\ out' = << >>
    /\ ops' = << >>
    /\ UNCHANGED <<inputs, err, dirs, files>>

Next ==
    \/ Main
    \/ LoadMaster
    \/ Collect
    \/ ProcessTarget
    \/ WriteIco
    \/ Summary

Spec == Init /\ [][Next]_vars

NextRerun ==
    \/ Next
    \/ Rerun

SpecRerun == InitRerun /\ [][NextRerun]_vars

\* ----------------------------------------------------- vocabulary of the claims

\* The catalog evaluated once for the project root.
CatalogTargets == [ p \in PLATFORM_GENERATOR_NAMES |-> PLATFORM_GENERATORS(p, project_root) ]

CatalogPaths == [ p \in PLATFORM_GENERATOR_NAMES |-> Keys(CatalogTargets[p]) ]

CatalogSizes == [ p \in PLATFORM_GENERATOR_NAMES |-> Values(CatalogTargets[p]) ]

CatalogNames == PLATFORM_GENERATOR_NAMES \cup {"windows"}

IcoPath == <<"windows", "runner", "resources", "app_icon.ico">>

\* The platforms that require opaque icons.
OpaquePlatforms == {"ios", "ios-legacy", "watch"}

Selected == Range(platforms.names)

HasUnknown(names) == \E i \in 1..Len(names) : names[i] \notin CatalogNames

\* Number of files a platform accounts for: its builder's targets, one for windows.
BuilderCount(p) == IF p = "windows" THEN 1 ELSE Len(CatalogTargets[p])

RECURSIVE SumCounts(_)
SumCounts(S) ==
    IF S = {} THEN 0
    ELSE LET p == CHOOSE q \in S : TRUE IN BuilderCount(p) + SumCounts(S \ {p})

Kinds(k) == { i \in 1..Len(out) : out[i].kind = k }

OpsOf(o) == { i \in 1..Len(ops) : ops[i].op = o }

SavedPaths == { ops[i].path : i \in OpsOf("save") }

\* The run is past the target collection.
Collected ==
    \/ pc \in {"png", "ico", "summary", "done"}
    \/ pc = "failed" /\ err \in {"WriteFailure", "RenderError", "FileExistsError"}

\* The raster master has been decoded and normalised.
RasterLoaded == ~master.is_svg /\ (Collected \/ pc = "collect")

\* ------------------------------------------------------------------ claims

\* C1: for a set of catalog platform names, a readable master and no write
\* failure, the number of distinct files written by the run and the count
\* printed in the summary both equal the sum, over the selected platforms, of
\* the number of targets the platform's builder returns, windows counting one.
C1_FileCountIsSumOfCatalog ==
    (pc = "done" /\ run = 1 /\ Selected \subseteq CatalogNames) =>
        /\ Cardinality(SavedPaths) = SumCounts(Selected)
        /\ Cardinality(DOMAIN files) = SumCounts(Selected)
        /\ out[Len(out)].kind = "SUMMARY"
        /\ out[Len(out)].n = SumCounts(Selected)

C1_Witness ==
    /\ pc = "done"
    /\ Selected = CatalogNames
    /\ Cardinality(DOMAIN files) = 66
    /\ out[Len(out)].n = 66

\* C2: a single-frame file is written without alpha (stripped by _strip_alpha
\* before the write) if and only if its target belongs to a selected platform
\* that requires opaque icons (ios, ios-legacy, watch), for raster and vector
\* masters alike.
RequiresOpaque(path) == \E p \in Selected \cap OpaquePlatforms : path \in CatalogPaths[p]

C2_OpaqueIffApplePlatform ==
    run = 1 =>
        /\ \A path \in DOMAIN files :
              files[path].format = "PNG" =>
                 ((files[path].primary.mode = "RGB") <=> RequiresOpaque(path))
        /\ \A i \in OpsOf("strip") : RequiresOpaque(ops[i].path)
        /\ \A i \in OpsOf("save") :
              (ops[i].path # IcoPath /\ RequiresOpaque(ops[i].path)) =>
                 (i > 1 /\ ops[i - 1] = Op("strip", ops[i].path, ops[i].size))

C2_Witness ==
    /\ master.is_svg
    /\ pc = "done"
    /\ \E path \in DOMAIN files : files[path].format = "PNG" /\ files[path].primary.mode = "RGB"
    /\ \E path \in DOMAIN files : files[path].format = "PNG" /\ files[path].primary.mode = "RGBA"

\* The maximum pixel size over all selected targets, the windows frames included
\* (0 when nothing is selected).
RequestedSizes ==
    UNION { CatalogSizes[p] : p \in Selected \cap PLATFORM_GENERATOR_NAMES }
    \cup (IF "windows" \in Selected THEN {16, 20, 24, 30, 32, 36, 40, 48, 60, 64, 72, 80, 96, 256} ELSE {})

MaxRequested == IF RequestedSizes = {} THEN 0 ELSE SetMax(RequestedSizes)

UpscaleWarnings == Kinds("WARN_UPSCALE")

\* C3 as stated: never for a vector master; for a raster master of any width
\* and height, exactly when the source's own width is smaller than the maximum
\* requested size.
C3_AsStated ==
    Collected =>
        /\ master.is_svg => UpscaleWarnings = {}
        /\ ~master.is_svg => ((UpscaleWarnings # {}) <=> (master.w < MaxRequested))

\* C3, amended: never for a vector master; for a raster master, exactly when
\* the side of the square-padded master, max(width, height), is smaller than
\* the maximum requested size.
C3_WarnIffPaddedSideTooSmall ==
    Collected =>
        /\ master.is_svg => UpscaleWarnings = {}
        /\ ~master.is_svg =>
              /\ (UpscaleWarnings # {}) <=> (Max(master.w, master.h) < MaxRequested)
              /\ Cardinality(UpscaleWarnings) <= 1
              /\ \A i \in UpscaleWarnings :
                    out[i].size = MaxRequested /\ out[i].n = Max(master.w, master.h)

C3_Witness ==
    /\ Collected
    /\ ~master.is_svg
    /\ master.w < master.h
    /\ master.w < MaxRequested
    /\ UpscaleWarnings = {}

\* Nothing has touched the master, the imaging library or the file system.
NothingDone == ops = << >> /\ files = << >> /\ dirs = {project_root} /\ out = << >>

\* No target has been processed: no directory created, nothing rendered,
\* nothing written, no summary printed.
NoTargetProcessed ==
    /\ dirs = {project_root}
    /\ OpsOf("mkdir") = {} /\ OpsOf("render") = {} /\ OpsOf("save") = {}
    /\ files = << >>
    /\ Kinds("SUMMARY") = {}

\* The master has been decoded (raster) or accepted as a vector document.
MasterLoaded == img # NoImage \/ Kinds("INFO_SVG") # {}

\* C4 as stated: whenever the requested set holds a name outside the catalog,
\* the master is never loaded and nothing is rendered or written, whichever
\* entry point received the set.
C4_AsStated ==
    (arg.given /\ HasUnknown(arg.names)) => (~MasterLoaded /\ NoTargetProcessed)

\* C4, amended: when the set comes from main's --platform option and holds a
\* name outside the catalog, main fails with a usage error before the master
\* is loaded and before anything is rendered or written.
C4_MainRejectsUnknown ==
    /\ [](err = "UsageError" => (pc = "failed" /\ NothingDone))
    /\ [][(pc = "main" /\ arg.given /\ HasUnknown(arg.names)) =>
             (pc' = "failed" /\ err' = "UsageError" /\ NothingDone')]_vars

C4_Witness ==
    /\ pc = "failed"
    /\ err = "UsageError"
    /\ \E i \in 1..Len(arg.names) : arg.names[i] \in CatalogNames

MissingMaster == ~master.exists

UndecodableRaster == master.exists /\ ~master.is_svg /\ ~master.decodable

UndecodableVector == master.exists /\ master.is_svg /\ ~master.decodable

NoVectorCapability == master.exists /\ master.is_svg /\ ~pyvips

\* C5 as stated: with a missing master, an undecodable raster or vector
\* master, or a vector master without the rendering capability, the run never
\* gets to process a target.
C5_AsStated ==
    (MissingMaster \/ UndecodableRaster \/ UndecodableVector \/ NoVectorCapability) =>
        (NoTargetProcessed /\ pc # "done")

\* C5, amended: with a missing master, an undecodable raster master, or a
\* vector master without the rendering capability, generate_icons aborts
\* before any target is processed.  An undecodable vector master is found only
\* by the first render (if any target is selected), after that target's
\* directory has been made: still no file is written.
C5_EagerMasterChecks ==
    /\ (MissingMaster \/ UndecodableRaster \/ NoVectorCapability) =>
          /\ NoTargetProcessed
          /\ pc \in {"main", "start", "failed"}
          /\ pc = "failed" =>
                err \in {"UsageError", "FileNotFoundError", "UnidentifiedImageError", "RuntimeError"}
    /\ (UndecodableVector /\ pyvips /\ run = 1) =>
          /\ files = << >> /\ OpsOf("save") = {}
          /\ Cardinality(OpsOf("render")) <= 1
          /\ pc \notin {"png", "ico"} => (OpsOf("render") # {} <=> err = "RenderError")
          /\ err = "RenderError" =>
                /\ pc = "failed"
                /\ Kinds("SUMMARY") = {}
                /\ ops[Len(ops)].op = "render"
                /\ ops[Len(ops) - 1] = Op("mkdir", Parent(ops[Len(ops)].path), 0)
                /\ Parent(ops[Len(ops)].path) \in dirs

C5_Witness ==
    /\ pc = "failed"
    /\ err = "RuntimeError"
    /\ NoVectorCapability
    /\ master.decodable
    /\ platforms.names # << >>

\* The file a successful single-frame write of (path, size) leaves.
IsWrittenPng(path, size) ==
    /\ path \in DOMAIN files
    /\ files[path].format = "PNG"
    /\ files[path].primary.w = size /\ files[path].primary.h = size

\* The paths whose write has completed in this run.
Completed == { out[i].path : i \in Kinds("OK") \cup Kinds("OK_ICO") }

\* C6: when the write of a single-frame file or of the windows container
\* fails, the run stops there: nothing is rendered or written afterwards, the
\* write is not retried, the files written earlier stay as they were written,
\* and the summary is never printed.
C6_WriteFailureAborts ==
    /\ [](err = "WriteFailure" =>
            /\ pc = "failed"
            /\ Kinds("SUMMARY") = {}
            /\ ops[Len(ops)].op = "save"
            /\ ops[Len(ops)].path \notin Completed
            /\ Cardinality({ i \in OpsOf("save") : ops[i].path = ops[Len(ops)].path }) = 1
            /\ \A i \in Kinds("OK") : IsWrittenPng(out[i].path, out[i].size))
    /\ [][ /\ err = "WriteFailure" => UNCHANGED vars
           /\ \A path \in Completed : path \in DOMAIN files' /\ files'[path] = files[path]
           /\ (err' = "WriteFailure" /\ err = "none") => (out' = out /\ queue' = queue)
         ]_vars

C6_Witness ==
    /\ err = "WriteFailure"
    /\ ops[Len(ops)].path = IcoPath
    /\ Kinds("OK") # {}
    /\ IcoPath \in DOMAIN files /\ files[IcoPath] = PartialFile

\* C7: a raster master with w # h becomes a transparent square canvas of side
\* max(w, h) with the original at (floor((max - w) / 2), floor((max - h) / 2)),
\* so 800x600 gives 800x800 with the original at (0, 100); a square master is
\* left as decoded; the raster master every target is rendered from is square.
C7_NormalizeCentersOnSquare ==
    RasterLoaded =>
        LET side == IF master.w >= master.h THEN master.w ELSE master.h
        IN /\ img.w = img.h
           /\ img.w = side
           /\ img.mode = "RGBA"
           /\ img.cw = master.w /\ img.ch = master.h
           /\ 2 * img.ox <= side - master.w /\ side - master.w <= 2 * img.ox + 1
           /\ 2 * img.oy <= side - master.h /\ side - master.h <= 2 * img.oy + 1
           /\ master.w # master.h => img.fill = "transparent"
           /\ master.w = master.h => img = ImageOpen(master)
           /\ (master.w = 800 /\ master.h = 600) =>
                 (img.w = 800 /\ img.h = 800 /\ img.ox = 0 /\ img.oy = 100)

C7_Witness ==
    /\ pc = "done"
    /\ ~master.is_svg
    /\ master.w = 800 /\ master.h = 600
    /\ img.oy = 100
    /\ files # << >>

ConfiguredIcoSizes == <<16, 20, 24, 30, 32, 36, 40, 48, 60, 64, 72, 80, 96, 256>>

\* The frames of a written container, as handed to the write: the image save
\* is called on, then the appended images.
FramesOf(f) == <<f.primary>> \o f.append_images

IcoFiles == { path \in DOMAIN files : files[path].format = "ICO" }

C9_SecondRunSameOutput ==
    run >= 2 =>
        /\ err # "FileExistsError"
        /\ SavedPaths \subseteq DOMAIN snap.files
        /\ pc = "done" =>
              /\ files = snap.files
              /\ dirs = snap.dirs
              /\ SavedPaths = DOMAIN snap.files

C9_Witness ==
    /\ run = 2
    /\ pc = "done"
    /\ Cardinality(DOMAIN files) >= 2
    /\ files = snap.files

\* C10: the single-frame targets are processed in non-decreasing size order,
\* each one rendered, then alpha-stripped if required, then written before the
\* next starts; the container is written after every single-frame file, and
\* the summary is printed after the container.
C10_ProcessingOrder ==
    /\ \A i \in 1..(Len(out) - 1) :
          /\ (out[i].kind = "OK" /\ out[i + 1].kind = "OK") => out[i].size <= out[i + 1].size
          /\ out[i].kind = "OK" => out[i + 1].kind \in {"OK", "OK_ICO", "SUMMARY"}
          /\ out[i].kind = "OK_ICO" => out[i + 1].kind = "SUMMARY"
          /\ out[i].kind # "SUMMARY"
    /\ \A i \in 1..Len(ops) :
          /\ (ops[i].op = "render" /\ ops[i].path # IcoPath) =>
                /\ i > 1 /\ ops[i - 1].op = "mkdir"
                /\ i < Len(ops) =>
                      /\ ops[i + 1].op \in {"strip", "save"}
                      /\ ops[i + 1].path = ops[i].path
          /\ ops[i].op = "strip" =>
                /\ ops[i - 1] = Op("render", ops[i].path, ops[i].size)
                /\ i < Len(ops) => ops[i + 1] = Op("save", ops[i].path, ops[i].size)
          /\ (ops[i].op = "save" /\ ops[i].path # IcoPath) =>
                /\ ops[i - 1].op \in {"render", "strip"}
                /\ ops[i - 1].path = ops[i].path
          /\ ops[i].path = IcoPath =>
                /\ \A j \in i..Len(ops) : ops[j].op # "mkdir" => ops[j].path = IcoPath
                /\ Keys(all_targets) \subseteq Completed
    /\ Kinds("SUMMARY") # {} =>
          /\ Keys(all_targets) \subseteq Completed
          /\ "windows" \in Selected => (IcoPath \in Completed /\ IcoPath \in SavedPaths)

C10_Witness ==
    /\ pc = "done"
    /\ "windows" \in Selected
    /\ OpsOf("strip") # {}
    /\ \E i, j \in Kinds("OK") : out[i].size < out[j].size
    /\ \E i \in Kinds("OK") : out[i].path \notin no_alpha_paths
====
